---- MODULE Spec2Model ----
(***************************************************************************)
(* A model of the hsh crate: the FNV-1a 64 bit hasher (src/src/fnv.rs)     *)
(* and the one-shot murmurhash3_x86_32 function (src/src/murmur.rs).       *)
(*                                                                         *)
(* TLC's integers are 32 bit signed, so a u32 or a u64 of the program is   *)
(* a sequence of 4 or 8 bytes, least significant byte first, and the       *)
(* wrapping operations of the program are computed on that encoding:       *)
(* every result is reduced modulo 2^32 or 2^64 by construction.            *)
(***************************************************************************)
EXTENDS Integers, Sequences, FiniteSets

\* --------------------------------------------------------------- bounds
\* The longest input handed to Fnv::write over the life of one hasher.
MaxFnvBytes == 3
\* The most write calls made on one hasher.
MaxWrites == 3
\* The most consecutive finish calls between two writes.
MaxFinish == 2
\* The longest input of the murmur inputs that are enumerated exhaustively.
MaxMurmurLen == 9

\* ------------------------------------------- fixed-width unsigned words
\* u32 written most significant byte first, as in a hexadecimal literal.
U32(b3, b2, b1, b0) == <<b0, b1, b2, b3>>

\* u64 written most significant byte first, as in a hexadecimal literal.
U64(b7, b6, b5, b4, b3, b2, b1, b0) == <<b0, b1, b2, b3, b4, b5, b6, b7>>

\* `v as u32` / `v as u64` for a small non-negative v (v < 2^31): zero extension.
RECURSIVE Widen(_, _)
Widen(v, width) ==
    IF width = 0 THEN <<>> ELSE <<v % 256>> \o Widen(v \div 256, width - 1)

\* Two to the power n, n <= 30.
RECURSIVE Pow2(_)
Pow2(n) == IF n = 0 THEN 1 ELSE 2 * Pow2(n - 1)

\* Bitwise exclusive or of the low n bits of a and b.
RECURSIVE XorBits(_, _, _)
XorBits(a, b, n) ==
    IF n = 0 THEN 0
    ELSE ((a + b) % 2) + 2 * XorBits(a \div 2, b \div 2, n - 1)

\* x ^ y on two words of the same width.
RECURSIVE BitXor(_, _)
BitXor(x, y) ==
    IF x = <<>> THEN <<>>
    ELSE <<XorBits(Head(x), Head(y), 8)>> \o BitXor(Tail(x), Tail(y))

\* The sum of the byte products x[i] * y[k + 1 - i] for i in lo..k.
RECURSIVE ColumnSum(_, _, _, _)
ColumnSum(x, y, k, lo) ==
    IF lo > k THEN 0 ELSE x[lo] * y[k + 1 - lo] + ColumnSum(x, y, k, lo + 1)

\* Schoolbook product from byte k on, with the carry of the lower bytes;
\* the bytes above the width are dropped.
RECURSIVE MulFrom(_, _, _, _)
MulFrom(x, y, k, carry) ==
    IF k > Len(x) THEN <<>>
    ELSE LET s == ColumnSum(x, y, k, 1) + carry
         IN  <<s % 256>> \o MulFrom(x, y, k + 1, s \div 256)

\* x.wrapping_mul(y): the product modulo 2^(8 * Len(x)).
wrapping_mul(x, y) == MulFrom(x, y, 1, 0)

\* Byte-wise sum from the least significant byte, the last carry dropped.
RECURSIVE AddFrom(_, _, _)
AddFrom(x, y, carry) ==
    IF x = <<>> THEN <<>>
    ELSE LET s == Head(x) + Head(y) + carry
         IN  <<s % 256>> \o AddFrom(Tail(x), Tail(y), s \div 256)

\* x.wrapping_add(y): the sum modulo 2^(8 * Len(x)).
wrapping_add(x, y) == AddFrom(x, y, 0)

\* TRUE iff x + y does not fit the width (the carry out of the top byte).
RECURSIVE AddCarries(_, _, _)
AddCarries(x, y, carry) ==
    IF x = <<>> THEN carry = 1
    ELSE AddCarries(Tail(x), Tail(y), (Head(x) + Head(y) + carry) \div 256)

\* Byte i (from 1) of x, zero above the width.
ByteOrZero(x, i) == IF i >= 1 /\ i <= Len(x) THEN x[i] ELSE 0

\* Byte i (from 1) of x, the index taken modulo the width.
ByteCyclic(x, i) == x[((i - 1) % Len(x)) + 1]

\* Bytes i.. of x >> r.
RECURSIVE ShrFrom(_, _, _)
ShrFrom(x, r, i) ==
    IF i > Len(x) THEN <<>>
    ELSE LET q == r \div 8
             s == r % 8
         IN  <<(ByteOrZero(x, i + q) \div Pow2(s))
               + (ByteOrZero(x, i + q + 1) % Pow2(s)) * Pow2(8 - s)>>
             \o ShrFrom(x, r, i + 1)

\* x.wrapping_shr(r): the shift amount is taken modulo the width in bits.
wrapping_shr(x, r) == ShrFrom(x, r % (8 * Len(x)), 1)

\* Bytes i.. of x rotated left by r bits, 0 <= r < width.
RECURSIVE RotlFrom(_, _, _)
RotlFrom(x, r, i) ==
    IF i > Len(x) THEN <<>>
    ELSE LET q == r \div 8
             s == r % 8
             n == Len(x)
         IN  <<((ByteCyclic(x, i - q + n) * Pow2(s)) % 256)
               + (ByteCyclic(x, i - q - 1 + 2 * n) \div Pow2(8 - s))>>
             \o RotlFrom(x, r, i + 1)

\* x.rotate_left(r).
rotate_left(x, r) == RotlFrom(x, r % (8 * Len(x)), 1)

\* Bytes i.. of x << r, 0 <= r < width; the bits shifted out are dropped.
RECURSIVE ShlFrom(_, _, _)
ShlFrom(x, r, i) ==
    IF i > Len(x) THEN <<>>
    ELSE LET q == r \div 8
             s == r % 8
         IN  <<((ByteOrZero(x, i - q) * Pow2(s)) % 256)
               + (ByteOrZero(x, i - q - 1) \div Pow2(8 - s))>>
             \o ShlFrom(x, r, i + 1)

\* x << r on a fixed-width word (r below the width, as the compiler requires).
shl(x, r) == ShlFrom(x, r, 1)

\* All sequences over S of length exactly n.
RECURSIVE SeqsOfLen(_, _)
SeqsOfLen(S, n) ==
    IF n = 0 THEN {<<>>}
    ELSE {<<a>> \o s : a \in S, s \in SeqsOfLen(S, n - 1)}

\* All sequences over S of length at most n.
SeqsUpTo(S, n) == UNION {SeqsOfLen(S, k) : k \in 0..n}

\* The concatenation of a sequence of byte sequences.
RECURSIVE Flatten(_)
Flatten(chunks) ==
    IF chunks = <<>> THEN <<>> ELSE Head(chunks) \o Flatten(Tail(chunks))

\* ------------------------------------------------------------ state
VARIABLES
    \* FNV: three hashers, one per constructor, driven by the same calls.
    key,        \* the key handed to Fnv::new_with_key
    input,      \* the byte string the caller feeds to the hashers
    fnv,        \* constructor name -> the hasher's state, the field Fnv.0
    log,        \* the byte slices handed to write so far, in call order
    rets,       \* the values finish returned since the last write
    finished,   \* TRUE once a write has followed a call of finish
    \* Murmur3: one call of murmurhash3_x86_32, statement by statement.
    pc,         \* the position in the function body
    seed,       \* argument seed
    bytes,      \* argument bytes
    nblocks,    \* local nblocks
    reader,     \* the position of the Cursor over bytes
    i,          \* the iterations of the block loop completed
    h1,         \* local h1
    k1,         \* local k1
    bytes_left, \* local bytes_left
    fault,      \* why the call panicked, "none" while it has not
    result      \* the value returned

fnvVars == <<key, input, fnv, log, rets, finished>>
murmurVars == <<pc, seed, bytes, nblocks, reader, i, h1, k1, bytes_left, fault, result>>
vars == <<key, input, fnv, log, rets, finished,
          pc, seed, bytes, nblocks, reader, i, h1, k1, bytes_left, fault, result>>

\* ------------------------------------------------------------ FNV-1a
PRIME == U64(0, 0, 1, 0, 0, 0, 1, 179)                \* 1099511628211
OFFSET_BASIS == U64(203, 242, 156, 228, 132, 34, 35, 37) \* 14695981039346656037

\* Fnv::new
Fnv_new == OFFSET_BASIS

\* Fnv::new_with_key
Fnv_new_with_key(k) == k

\* A slip: the default of the wrapped u64, as a derived Default gives.
Fnv_default_derived == U64(0, 0, 0, 0, 0, 0, 0, 0)

\* <Fnv as Default>::default

Fnv_default == Fnv_new

\* A slip: finish applies a last multiplication to the state it returns.
finish_mixing(self) == wrapping_mul(self, PRIME)

\* Hasher::finish
finish(self) == self

\* A slip: FNV-1, the multiplication before the exclusive or.
write_byte_fnv1(self, byte) == BitXor(wrapping_mul(self, PRIME), Widen(byte, 8))

\* The body of the loop of Hasher::write, for one byte.
write_byte(self, byte) == wrapping_mul(BitXor(self, Widen(byte, 8)), PRIME)

\* The loop of Hasher::write over bytes.iter().
RECURSIVE write_loop(_, _)
write_loop(self, bs) ==
    IF bs = <<>> THEN self ELSE write_loop(write_byte(self, Head(bs)), Tail(bs))

\* A slip: every call of write ends with one more multiplication.
write_finalizing(self, bs) == wrapping_mul(write_loop(self, bs), PRIME)

\* Hasher::write
write(self, bs) == write_loop(self, bs)

Ctors == {"new", "default", "new_with_key"}

\* The hasher each constructor returns.
Construct(c, k) ==
    CASE c = "new" -> Fnv_new
      [] c = "default" -> Fnv_default
      [] c = "new_with_key" -> Fnv_new_with_key(k)

\* The keys tried: the offset basis, zero and the largest u64.
Keys == { OFFSET_BASIS,
          U64(0, 0, 0, 0, 0, 0, 0, 0),
          U64(255, 255, 255, 255, 255, 255, 255, 255) }

\* "foo", "bar", "baz": the inputs of the crate's tests.
Foo == <<102, 111, 111>>
Bar == <<98, 97, 114>>
Baz == <<98, 97, 122>>
KnownWords == {Foo, Bar, Baz}

\* The inputs fed to the hashers: the words of the tests, and runs of 0xFF.
FnvInputs == SeqsUpTo({255}, MaxFnvBytes) \cup KnownWords

\* The bytes written so far.
written == Flatten(log)

FnvFresh ==
    /\ fnv = [c \in Ctors |-> Construct(c, key)]
    /\ log = <<>>
    /\ rets = <<>>
    /\ finished = FALSE

\* hasher.write(next n bytes of input), on each hasher.
Write(n) ==
    /\ Len(log) < MaxWrites
    /\ Len(written) + n <= Len(input)
    /\ LET bs == SubSeq(input, Len(written) + 1, Len(written) + n)
       IN  /\ fnv' = [c \in Ctors |-> write(fnv[c], bs)]
           /\ log' = Append(log, bs)
    /\ rets' = <<>>
    /\ finished' = (finished \/ rets # <<>>)
    /\ UNCHANGED <<key, input>>
    /\ UNCHANGED murmurVars

\* hasher.finish(), on each hasher; finish takes &self, the state is not written.
Finish ==
    /\ Len(rets) < MaxFinish
    /\ rets' = Append(rets, [c \in Ctors |-> finish(fnv[c])])
    /\ UNCHANGED <<key, input, fnv, log, finished>>
    /\ UNCHANGED murmurVars

\* ------------------------------------------------- murmurhash3_x86_32
c1 == U32(204, 158, 45, 81)     \* 0xcc9e2d51
c2 == U32(27, 135, 53, 147)     \* 0x1b873593

\* A slip: the blocks counted rounding up.
num_blocks_ceil(len) == (len + 3) \div 4

\* let nblocks = bytes.len() / 4
num_blocks(len) == len \div 4

\* The Cursor holds at least n unread bytes at position pos: the read is Ok.
CanRead(bs, pos, n) == pos + n <= Len(bs)

\* read_u8 / read_u16::<LittleEndian> / read_u32::<LittleEndian> at position
\* pos: the n bytes read, least significant first.
ReadLE(bs, pos, n) == SubSeq(bs, pos + 1, pos + n)

\* `x as u32` for an unsigned x of at most 4 bytes: zero extension.
RECURSIVE AsU32(_)
AsU32(x) == IF Len(x) >= 4 THEN x ELSE AsU32(Append(x, 0))

\* k1.wrapping_mul(c1).rotate_left(15).wrapping_mul(c2)
scramble(k) == wrapping_mul(rotate_left(wrapping_mul(k, c1), 15), c2)

\* The iteration with the mixed value assigned to h1, as in the reference
\* MurmurHash3.
loop_body_assigned(h, word) ==
    LET k == scramble(word)
        hx == BitXor(h, k)
    IN  wrapping_add(wrapping_mul(rotate_left(hx, 13), Widen(5, 4)),
                     U32(230, 84, 107, 100))

\* One iteration of the block loop on the word read: the value of h1 when the
\* iteration ends. The statement after `h1 ^= k1` computes the mixed value
\* and drops it: h1 is not assigned.
loop_body(h, word) ==
    LET k == scramble(word)
        hx == BitXor(h, k)
        dropped == wrapping_add(wrapping_mul(rotate_left(hx, 13), Widen(5, 4)),
                                U32(230, 84, 107, 100))
    IN  hx

\* The block loop from iteration it on: h1 when the loop ends.
RECURSIVE block_loop(_, _, _, _)
block_loop(h, bs, it, n) ==
    IF it >= n THEN h
    ELSE block_loop(loop_body(h, ReadLE(bs, 4 * it, 4)), bs, it + 1, n)

\* The operands of `k1 += reader.read_u8() as u32` in the arm for 3 bytes.
TailShifted(bs, pos) == shl(AsU32(ReadLE(bs, pos, 2)), 8)
TailLast(bs, pos) == AsU32(ReadLE(bs, pos + 2, 1))

\* The tail of the reference MurmurHash3: the bytes left as a little-endian
\* number, the last byte the most significant.
tail_word_reference(bs, pos, left) == AsU32(ReadLE(bs, pos, left))

\* The arms 3, 2 and 1 of `match bytes_left`: the k1 built from the bytes left.
tail_word(bs, pos, left) ==
    CASE left = 3 -> wrapping_add(TailShifted(bs, pos), TailLast(bs, pos))
      [] left = 2 -> AsU32(ReadLE(bs, pos, 2))
      [] left = 1 -> AsU32(ReadLE(bs, pos, 1))

\* The statements from `h1 ^= bytes.len() as u32` to the returned h1.
finalize(h, len) ==
    LET a == BitXor(h, Widen(len, 4))
        b == BitXor(a, wrapping_shr(a, 16))
        c == wrapping_mul(b, U32(133, 235, 202, 107))
        d == BitXor(c, wrapping_shr(c, 13))
        e == wrapping_mul(d, U32(194, 178, 174, 53))
    IN  BitXor(e, wrapping_shr(e, 16))

\* The outcome of a call that panics.
Panic == <<"panic">>

\* murmurhash3_x86_32 as a function of its arguments: the value returned, or
\* Panic when the call reaches panic!("Invalid number of bytes left").
murmurhash3_x86_32(sd, bs) ==
    LET n == num_blocks(Len(bs))
        h == block_loop(sd, bs, 0, n)
        left == Len(bs) - (n * 4)
    IN  IF left \notin 1..3 THEN Panic
        ELSE finalize(BitXor(h, scramble(tail_word(bs, 4 * n, left))), Len(bs))

\* The seeds tried: zero, the seeds of the crate's tests and the largest u32.
Seeds == { U32(0, 0, 0, 0),
           U32(0, 0, 0, 42),          \* 42
           U32(7, 91, 205, 21),       \* 123456789
           U32(0, 13, 47, 217),       \* 864217
           U32(255, 255, 255, 255) }

\* The inputs hashed: the words of the tests, and every sequence of the bytes
\* 'a' and 0xFF up to the longest length.
MurmurInputs == SeqsUpTo({97, 255}, MaxMurmurLen) \cup KnownWords

Zero32 == U32(0, 0, 0, 0)

\* Lines 58-64: the locals before the block loop.
Enter ==
    /\ pc = "call"
    /\ nblocks' = num_blocks(Len(bytes))
    /\ reader' = 0
    /\ h1' = seed
    /\ i' = 0
    /\ pc' = "loop"
    /\ UNCHANGED <<seed, bytes, k1, bytes_left, fault, result>>
    /\ UNCHANGED fnvVars

\* Lines 66-72: one iteration of `for _ in 0..nblocks`.
Block ==
    /\ pc = "loop"
    /\ i < nblocks
    /\ IF CanRead(bytes, reader, 4)
       THEN /\ k1' = scramble(ReadLE(bytes, reader, 4))
            /\ h1' = loop_body(h1, ReadLE(bytes, reader, 4))
            /\ reader' = reader + 4
            /\ i' = i + 1
            /\ UNCHANGED <<pc, fault>>
       ELSE /\ pc' = "panic"
            /\ fault' = "unwrap"
            /\ UNCHANGED <<k1, h1, reader, i>>
    /\ UNCHANGED <<seed, bytes, nblocks, bytes_left, result>>
    /\ UNCHANGED fnvVars

\* Line 74: the loop is over, bytes_left is computed.
BytesLeft ==
    /\ pc = "loop"
    /\ i >= nblocks
    /\ bytes_left' = Len(bytes) - (nblocks * 4)
    /\ pc' = "tail"
    /\ UNCHANGED <<seed, bytes, nblocks, reader, i, h1, k1, fault, result>>
    /\ UNCHANGED fnvVars

\* Lines 76-84 and 90-91: the arms 3, 2 and 1 of the match, then k1 is
\* scrambled and folded into h1. A read past the end is an Err and unwrap
\* panics; `k1 += ..` panics on overflow in a build with overflow checks and
\* wraps in a build without.
TailArm ==
    /\ pc = "tail"
    /\ bytes_left \in 1..3
    /\ IF ~CanRead(bytes, reader, bytes_left)
       THEN /\ pc' = "panic"
            /\ fault' = "unwrap"
            /\ UNCHANGED <<k1, h1, reader>>
       ELSE \E checks \in IF bytes_left = 3
                             /\ AddCarries(TailShifted(bytes, reader),
                                           TailLast(bytes, reader), 0)
                          THEN {"on", "off"} ELSE {"off"} :
              IF checks = "on"
              THEN /\ pc' = "panic"
                   /\ fault' = "overflow"
                   /\ UNCHANGED <<k1, h1, reader>>
              ELSE /\ k1' = scramble(tail_word(bytes, reader, bytes_left))
                   /\ h1' = BitXor(h1, k1')
                   /\ reader' = reader + bytes_left
                   /\ pc' = "fin"
                   /\ UNCHANGED fault
    /\ UNCHANGED <<seed, bytes, nblocks, i, bytes_left, result>>
    /\ UNCHANGED fnvVars

\* Lines 85-87: the arm `_` of the match.
TailPanic ==
    /\ pc = "tail"
    /\ bytes_left \notin 1..3
    /\ pc' = "panic"
    /\ fault' = "Invalid number of bytes left"
    /\ UNCHANGED <<seed, bytes, nblocks, reader, i, h1, k1, bytes_left, result>>
    /\ UNCHANGED fnvVars

\* Lines 93-100: the finalization, and the return of h1.
Finalize ==
    /\ pc = "fin"
    /\ h1' = finalize(h1, Len(bytes))
    /\ result' = h1'
    /\ pc' = "done"
    /\ UNCHANGED <<seed, bytes, nblocks, reader, i, k1, bytes_left, fault>>
    /\ UNCHANGED fnvVars

\* ---------------------------------------------------- specifications
\* No call of murmurhash3_x86_32 is in progress.
MurmurIdle ==
    /\ pc = "idle"
    /\ seed = Zero32
    /\ bytes = <<>>
    /\ nblocks = 0
    /\ reader = 0
    /\ i = 0
    /\ h1 = Zero32
    /\ k1 = Zero32
    /\ bytes_left = 0
    /\ fault = "none"
    /\ result = Zero32

\* The three hashers just constructed, and the input they will be fed.
InitFnv ==
    /\ key \in Keys
    /\ input \in FnvInputs
    /\ FnvFresh
    /\ MurmurIdle

NextFnv == (\E n \in 0..MaxFnvBytes : Write(n)) \/ Finish

SpecFnv == InitFnv /\ [][NextFnv]_vars

\* A call of murmurhash3_x86_32(seed, bytes) about to run.
InitMurmur ==
    /\ seed \in Seeds
    /\ bytes \in MurmurInputs
    /\ pc = "call"
    /\ nblocks = 0
    /\ reader = 0
    /\ i = 0
    /\ h1 = Zero32
    /\ k1 = Zero32
    /\ bytes_left = 0
    /\ fault = "none"
    /\ result = Zero32
    /\ key = OFFSET_BASIS
    /\ input = <<>>
    /\ FnvFresh

NextMurmur == Enter \/ Block \/ BytesLeft \/ TailArm \/ TailPanic \/ Finalize

SpecMurmur == InitMurmur /\ [][NextMurmur]_vars

\* ------------------------------------------------------------ claims
\* The finalization as the specification states it: h ^= h >> 16;
\* h *= 0x85EBCA6B; h ^= h >> 13; h *= 0xC2B2AE35; h ^= h >> 16.
RefFmix(h) ==
    LET a == BitXor(h, wrapping_shr(h, 16))
        b == wrapping_mul(a, U32(133, 235, 202, 107))
        c == BitXor(b, wrapping_shr(b, 13))
        d == wrapping_mul(c, U32(194, 178, 174, 53))
    IN  BitXor(d, wrapping_shr(d, 16))

\* T(k) = rotl(k * 0xCC9E2D51, 15) * 0x1B873593 as the specification states it.
RefT(k) ==
    wrapping_mul(rotate_left(wrapping_mul(k, U32(204, 158, 45, 81)), 15),
                 U32(27, 135, 53, 147))

\* rotl(h, 13) * 5 + 0xE6546B64 as the specification states it.
RefMix(h) ==
    wrapping_add(wrapping_mul(rotate_left(h, 13), U32(0, 0, 0, 5)),
                 U32(230, 84, 107, 100))

\* The tail word as the specification states it: b0 for one byte,
\* b0 | (b1 << 8) for two, ((b0 | (b1 << 8)) << 8) + b2 for three.
RefTailWord(bs) ==
    CASE Len(bs) = 1 -> U32(0, 0, 0, bs[1])
      [] Len(bs) = 2 -> U32(0, 0, bs[2], bs[1])
      [] Len(bs) = 3 -> U32(0, bs[2], bs[1], bs[3])

\* FNV-1a 64 as the specification states it, from a given state:
\* state = ((state XOR byte) * 1099511628211) mod 2^64 for each byte in order.
RECURSIVE RefFnv1a(_, _)
RefFnv1a(state, bs) ==
    IF bs = <<>> THEN state
    ELSE RefFnv1a(wrapping_mul(BitXor(state, U64(0, 0, 0, 0, 0, 0, 0, Head(bs))),
                               U64(0, 0, 1, 0, 0, 0, 1, 179)),
                  Tail(bs))

\* 14695981039346656037
RefOffsetBasis == U64(203, 242, 156, 228, 132, 34, 35, 37)

\* C1: murmurhash3_x86_32 returns without failing for every seed and every
\* byte sequence, the empty one and the lengths that are a multiple of 4
\* included: no call panics.
C1_NeverPanics == pc # "panic"

\* C2: for every seed, murmurhash3_x86_32(seed, []) returns the finalization
\* of seed XOR 0: the call on the empty input ends by returning that value.
C2_EmptyInput ==
    (bytes = <<>> /\ pc \in {"done", "panic"})
        => (pc = "done" /\ result = RefFmix(BitXor(seed, U32(0, 0, 0, 0))))

\* C3: whatever the constructor and however the bytes written were split
\* into consecutive write calls, the hasher's state, and what finish returns,
\* is that of one write of the concatenation on a fresh hasher.
C3_IncrementalEquivalence ==
    log # <<>> =>
        \A c \in Ctors :
            LET once == write(Construct(c, key), written)
            IN  /\ fnv[c] = once
                /\ \A j \in 1..Len(rets) : rets[j][c] = finish(once)

\* Two non-empty writes, then a finish.
C3_Witness ==
    /\ Len(log) >= 2
    /\ log[1] # <<>>
    /\ log[2] # <<>>
    /\ rets # <<>>

\* C4: Fnv::new(), write(bytes), finish() gives the FNV-1a 64 bit value of
\* bytes: from 14695981039346656037, state = ((state XOR byte) * PRIME) mod
\* 2^64 per byte; "foo" -> 15902901984413996407, "bar" -> 16101355973854746,
\* "baz" -> 16092559880829058.
C4_Fnv1aReference ==
    /\ fnv["new"] = RefFnv1a(RefOffsetBasis, written)
    /\ \A j \in 1..Len(rets) :
           /\ rets[j]["new"] = fnv["new"]
           /\ written = Foo => rets[j]["new"] = U64(220, 178, 117, 24, 254, 217, 213, 119)
           /\ written = Bar => rets[j]["new"] = U64(0, 57, 52, 25, 19, 57, 70, 26)
           /\ written = Baz => rets[j]["new"] = U64(0, 57, 44, 25, 19, 57, 56, 130)

\* "foo" written in one call, then finish.
C4_Witness ==
    /\ log = <<Foo>>
    /\ rets # <<>>

\* C5: after each full block the accumulator holds the mixed value:
\* h1' = rotl(h1 XOR T(word), 13) * 5 + 0xE6546B64.
C5_MixAssigned ==
    [][(pc = "loop" /\ i < nblocks /\ i' = i + 1)
          => h1' = RefMix(BitXor(h1, RefT(ReadLE(bytes, reader, 4))))]_vars

\* C6: for an input of 1, 2 or 3 bytes the call returns
\* fmix(seed XOR T(k1) XOR len) with k1 the tail word of the specification;
\* (42, "foo") -> 1490047128, (123456789, "bar") -> 2996396419,
\* (864217, "baz") -> 174231400.
C6_TailOnly ==
    (pc \in {"done", "panic"} /\ Len(bytes) \in 1..3) =>
        /\ pc = "done"
        /\ result = RefFmix(BitXor(BitXor(seed, RefT(RefTailWord(bytes))),
                                   U32(0, 0, 0, Len(bytes))))
        /\ (seed = U32(0, 0, 0, 42) /\ bytes = Foo)
               => result = U32(88, 208, 80, 152)
        /\ (seed = U32(7, 91, 205, 21) /\ bytes = Bar)
               => result = U32(178, 153, 97, 131)
        /\ (seed = U32(0, 13, 47, 217) /\ bytes = Baz)
               => result = U32(10, 98, 143, 104)

\* murmurhash3_x86_32(42, "foo") has returned.
C6_Witness ==
    /\ pc = "done"
    /\ seed = U32(0, 0, 0, 42)
    /\ bytes = Foo

\* C7: new(), default() and new_with_key(14695981039346656037) start in
\* state 14695981039346656037 and stay equal, in state and in what finish
\* returns, under the same writes; new_with_key(k) starts in state k.
C7_DefaultVsKeyed ==
    /\ fnv["default"] = fnv["new"]
    /\ key = RefOffsetBasis => fnv["new_with_key"] = fnv["new"]
    /\ \A j \in 1..Len(rets) :
           /\ rets[j]["default"] = rets[j]["new"]
           /\ key = RefOffsetBasis => rets[j]["new_with_key"] = rets[j]["new"]
           /\ log = <<>> => rets[j]["new_with_key"] = key
    /\ log = <<>> =>
           /\ fnv["new"] = RefOffsetBasis
           /\ fnv["new_with_key"] = key

\* The three hashers built from the offset basis, written to twice, finished.
C7_Witness ==
    /\ key = RefOffsetBasis
    /\ Len(log) >= 2
    /\ Len(written) >= 2
    /\ rets # <<>>

\* C8: finish returns the state and leaves it as it is: consecutive finish
\* calls all return the current state, and a write made after finish calls
\* gives the state the writes alone give.
C8_FinishPure ==
    \A c \in Ctors :
        /\ \A j \in 1..Len(rets) : rets[j][c] = fnv[c]
        /\ finished => fnv[c] = RefFnv1a(Construct(c, key), written)

\* A finish, then a non-empty write, then two finish calls.
C8_Witness ==
    /\ finished
    /\ Len(rets) >= 2
    /\ log # <<>>
    /\ log[Len(log)] # <<>>

\* C9: on an input whose length is not a multiple of 4 the call never
\* faults: every read finds its bytes, the cursor is at 4 * nblocks when the
\* loop ends and at the end of the input after the tail, and the shift and
\* the addition of the 3-byte tail lose no bit.
C9_NoFault ==
    (pc # "idle" /\ Len(bytes) % 4 # 0) =>
        /\ pc # "panic"
        /\ fault = "none"
        /\ (pc = "loop" /\ i < nblocks) => CanRead(bytes, reader, 4)
        /\ pc = "tail" =>
               /\ reader = 4 * nblocks
               /\ bytes_left = Len(bytes) - reader
               /\ bytes_left \in 1..3
               /\ bytes_left = 3 =>
                      /\ wrapping_shr(TailShifted(bytes, reader), 8)
                             = AsU32(ReadLE(bytes, reader, 2))
                      /\ ~AddCarries(TailShifted(bytes, reader),
                                     TailLast(bytes, reader), 0)
        /\ pc \in {"fin", "done"} => reader = Len(bytes)

\* A call on seven bytes 0xFF (one block, three bytes left) has returned.
C9_Witness ==
    /\ pc = "done"
    /\ bytes = <<255, 255, 255, 255, 255, 255, 255>>

\* The permutations of 1..n.
Perms(n) == {f \in [1..n -> 1..n] : \A a, b \in 1..n : f[a] = f[b] => a = b}

\* Block number b (from 1) of bs.
BlockOf(bs, b) == SubSeq(bs, 4 * b - 3, 4 * b)

\* The blocks p[1], .., p[n] of bs from number b on, one after the other.
RECURSIVE BlocksFrom(_, _, _, _)
BlocksFrom(bs, p, b, n) ==
    IF b > n THEN <<>> ELSE BlockOf(bs, p[b]) \o BlocksFrom(bs, p, b + 1, n)

\* bs with its n full blocks in the order p, its tail bytes in place.
PermuteBlocks(bs, p, n) == BlocksFrom(bs, p, 1, n) \o SubSeq(bs, 4 * n + 1, Len(bs))

\* C10: as coded, the result does not depend on the order of the full
\* blocks: an input with the same tail bytes and the same blocks in another
\* order hashes to the same value.
C10_BlockOrderInsensitive ==
    (pc = "done") =>
        \A p \in Perms(Len(bytes) \div 4) :
            murmurhash3_x86_32(seed, PermuteBlocks(bytes, p, Len(bytes) \div 4))
                = result

\* A call on two different full blocks and a tail has returned.
C10_Witness ==
    /\ pc = "done"
    /\ Len(bytes) \div 4 = 2
    /\ BlockOf(bytes, 1) # BlockOf(bytes, 2)

====
